---- MODULE Spec2Model ----
(***************************************************************************)
(* Virtual classroom domain model (classroom_ddd.py): one Course, an       *)
(* Assignment that refers to it and a Submission made for that assignment. *)
(* Every method of the aggregates is an operator on the aggregate's record *)
(* (its "self") that yields the mutated record and the outcome of the call *)
(* ("ok", or the ValueError that was raised); every call is one action.    *)
(* A call that raises leaves the state as it was found.                    *)
(***************************************************************************)
EXTENDS Integers, Sequences, FiniteSets, TLC

VARIABLES
    course,       \* the Course aggregate: a record of its fields
    assignment,   \* None, or Some(the Assignment created for the course)
    submission,   \* None, or Some(the Submission object that is followed)
    now,          \* the value datetime.now() returned last (non-decreasing)
    submission_repo,   \* InMemorySubmissionRepository._submissions, in
                      \* insertion order
    submissions,   \* the list passed to calculate_average_grade
    average,   \* None, or Some(what calculate_average_grade returned)
    course_repo,   \* InMemoryCourseRepository._courses: identifier -> course
    assignment_repo,   \* InMemoryAssignmentRepository._assignments
    calls,   \* per thread: None, or Some(the user its enroll_student call is about to append)
    serialized   \* whether the host runs the mutating calls on the course one at a time

vars ==
    <<course, assignment, submission, now, submission_repo,
      submissions, average, course_repo, assignment_repo, calls, serialized>>

\* ------------------------------------------------------------------ bounds
NumUsers == 3
MaxCap == 2
MaxTime == 1
MaxPoints == 1
MaxBulk == 2
MaxInitialEnrollments == 2
MaxItems == 2
MaxStored == 2
MaxSubmissions == 3
MaxCourses == 2
NumThreads == 2
MaxAssignments == 1

\* ------------------------------------------------------------- value sets
\* Optional[T]: None is the empty tuple, a present value x is <<x>>.
None == << >>
Some(x) == <<x>>

Users == 1 .. NumUsers
TEACHER == "teacher"
STUDENT == "student"
UserRole == {TEACHER, STUDENT}
DRAFT == "draft"
ACTIVE == "active"
ARCHIVED == "archived"
CourseStatus == {ACTIVE, ARCHIVED, DRAFT}
SUBMITTED == "submitted"
GRADED == "graded"
LATE == "late"
NOT_SUBMITTED == "not_submitted"
ALL == "all"
TEACHERS_ONLY == "teachers_only"
ContentVisibility == {ALL, TEACHERS_ONLY}
SubmissionStatus == {NOT_SUBMITTED, SUBMITTED, GRADED, LATE}

\* The access code the course is constructed with, and the codes callers give.
StoredCode == "ENG123"
Codes == {"ENG123", "WRONG"}
Feedbacks == {"", "Solid explanation"}
Capacities == {None} \cup {Some(n) : n \in 0 .. MaxCap}
Times == 0 .. MaxTime
PointValues == -1 .. MaxPoints + 1
MaxPointValues == 0 .. MaxPoints

OK == "ok"

\* The identifier under which the followed assignment is stored, and the
\* identifiers a caller may pass; those of the users are the users.
AssignmentId == 1
AssignmentIds == {AssignmentId, 2}
UserIds == Users \cup {0}

\* The threads of a host that calls into one course.
Threads == 1 .. NumThreads

\* The names, titles and e-mail addresses the use cases are called with.
Names == {"Math", "Art"}
Titles == {"Essay", "Quiz"}
email(user) == "user" \o ToString(user) \o "@school.edu"

\* Users are interchangeable: the creator is the first of them.
Creator == CHOOSE u \in Users : \A v \in Users : u <= v

\* ------------------------------------------------------- CourseEnrollment
CourseEnrollment(user, role) == [user |-> user, role |-> role]

is_teacher(e) == e.role = TEACHER

is_student(e) == e.role = STUDENT

\* sum(1 for e in enrollments if e.is_student())
student_count(enrollments) == Len(SelectSeq(enrollments, is_student))

\* ------------------------------------------------- Announcement, Material
\* An Announcement or a Material: its id is fresh (uuid4), here the number
\* of the item in its collection; title and content are carried along only.
ContentItem(id, created_by, visibility) ==
    [id |-> id, created_by |-> created_by, visibility |-> visibility]

\* Announcement.is_visible_to and Material.is_visible_to (the same code).
\* Faulty variant: every item is visible to every role.
is_visible_to_everyone(item, role) ==
    TRUE

is_visible_to(item, role) ==
    IF item.visibility = ALL THEN TRUE
    ELSE role = TEACHER

\* ----------------------------------------------------------------- Course
\* Course.__post_init__: the creator is appended as teacher unless some
\* enrollment of the given list already binds the creator to the teacher role.
Course_post_init(self) ==
    IF ~ \E i \in DOMAIN self.enrollments :
            /\ self.enrollments[i].user = self.created_by
            /\ is_teacher(self.enrollments[i])
    THEN [self EXCEPT !.enrollments =
              Append(@, CourseEnrollment(self.created_by, TEACHER))]
    ELSE self

\* The dataclass constructor followed by __post_init__.
Course(created_by, status, max_students, enrollments) ==
    Course_post_init([created_by |-> created_by,
                      access_code |-> StoredCode,
                      status |-> status,
                      max_students |-> max_students,
                      enrollments |-> enrollments,
                      announcements |-> << >>,
                      materials |-> << >>])

\* Faulty variant: an archived course counts as active (only draft is excluded).
is_active_unless_draft(self) == self.status # DRAFT

is_active(self) == self.status = ACTIVE

\* Faulty variant: the capacity comparison is off by one.
can_accept_students_off_by_one(self) ==
    IF ~ is_active(self) THEN FALSE
    ELSE IF self.max_students = None THEN TRUE
    ELSE student_count(self.enrollments) <= self.max_students[1]

can_accept_students(self) ==
    IF ~ is_active(self) THEN FALSE
    ELSE IF self.max_students = None THEN TRUE
    ELSE student_count(self.enrollments) < self.max_students[1]

\* Faulty variant: only a student enrollment of the user counts.
is_enrolled_as_student(self, user) ==
    \E i \in DOMAIN self.enrollments :
        /\ self.enrollments[i].user = user
        /\ is_student(self.enrollments[i])

is_enrolled(self, user) ==
    \E i \in DOMAIN self.enrollments : self.enrollments[i].user = user

\* The first enrollment of the user decides; None when there is none.
get_user_role(self, user) ==
    IF is_enrolled(self, user)
    THEN LET first == CHOOSE i \in DOMAIN self.enrollments :
                          /\ self.enrollments[i].user = user
                          /\ \A j \in 1 .. i - 1 : self.enrollments[j].user # user
         IN  Some(self.enrollments[first].role)
    ELSE None

\* Faulty variant: the access code is not compared.
enroll_student_any_code(self, user, provided_code) ==
    IF ~ is_active(self)
    THEN [self |-> self, result |-> "Course is not active"]
    ELSE IF is_enrolled(self, user)
    THEN [self |-> self, result |-> "User is already enrolled"]
    ELSE IF ~ can_accept_students(self)
    THEN [self |-> self, result |-> "Course has reached maximum enrollment"]
    ELSE [self |-> [self EXCEPT !.enrollments =
                        Append(@, CourseEnrollment(user, STUDENT))],
          result |-> OK]

\* Faulty variant: a draft course enrolls students too.
enroll_student_unless_archived(self, user, provided_code) ==
    IF self.status = ARCHIVED
    THEN [self |-> self, result |-> "Course is not active"]
    ELSE IF provided_code # self.access_code
    THEN [self |-> self, result |-> "Invalid access code"]
    ELSE IF is_enrolled(self, user)
    THEN [self |-> self, result |-> "User is already enrolled"]
    ELSE IF self.max_students # None
            /\ student_count(self.enrollments) >= self.max_students[1]
    THEN [self |-> self, result |-> "Course has reached maximum enrollment"]
    ELSE [self |-> [self EXCEPT !.enrollments =
                        Append(@, CourseEnrollment(user, STUDENT))],
          result |-> OK]

enroll_student(self, user, provided_code) ==
    IF ~ is_active(self)
    THEN [self |-> self, result |-> "Course is not active"]
    ELSE IF provided_code # self.access_code
    THEN [self |-> self, result |-> "Invalid access code"]
    ELSE IF is_enrolled(self, user)
    THEN [self |-> self, result |-> "User is already enrolled"]
    ELSE IF ~ can_accept_students(self)
    THEN [self |-> self, result |-> "Course has reached maximum enrollment"]
    ELSE [self |-> [self EXCEPT !.enrollments =
                        Append(@, CourseEnrollment(user, STUDENT))],
          result |-> OK]

\* Faulty variant: a teacher is added only while the course accepts students.
add_teacher_when_accepting(self, user) ==
    IF is_enrolled(self, user)
    THEN [self |-> self, result |-> "User is already enrolled"]
    ELSE IF ~ can_accept_students(self)
    THEN [self |-> self, result |-> "Course has reached maximum enrollment"]
    ELSE [self |-> [self EXCEPT !.enrollments =
                        Append(@, CourseEnrollment(user, TEACHER))],
          result |-> OK]

\* Faulty variant: only an existing teacher enrollment of the user is a duplicate.
add_teacher_unless_teacher(self, user) ==
    IF \E i \in DOMAIN self.enrollments :
           /\ self.enrollments[i].user = user
           /\ is_teacher(self.enrollments[i])
    THEN [self |-> self, result |-> "User is already enrolled"]
    ELSE [self |-> [self EXCEPT !.enrollments =
                        Append(@, CourseEnrollment(user, TEACHER))],
          result |-> OK]

add_teacher(self, user) ==
    IF is_enrolled(self, user)
    THEN [self |-> self, result |-> "User is already enrolled"]
    ELSE [self |-> [self EXCEPT !.enrollments =
                        Append(@, CourseEnrollment(user, TEACHER))],
          result |-> OK]

\* Faulty variant: any enrolled user may post.
post_announcement_any_member(self, user, visibility) ==
    IF get_user_role(self, user) = None
    THEN [self |-> self, result |-> "Only teachers can post announcements"]
    ELSE [self |-> [self EXCEPT !.announcements =
                        Append(@, ContentItem(Len(@) + 1, user, visibility))],
          result |-> OK]

post_announcement(self, user, visibility) ==
    IF get_user_role(self, user) # Some(TEACHER)
    THEN [self |-> self, result |-> "Only teachers can post announcements"]
    ELSE [self |-> [self EXCEPT !.announcements =
                        Append(@, ContentItem(Len(@) + 1, user, visibility))],
          result |-> OK]

add_material(self, user, visibility) ==
    IF get_user_role(self, user) # Some(TEACHER)
    THEN [self |-> self, result |-> "Only teachers can add materials"]
    ELSE [self |-> [self EXCEPT !.materials =
                        Append(@, ContentItem(Len(@) + 1, user, visibility))],
          result |-> OK]

get_visible_announcements(self, user) ==
    LET role == get_user_role(self, user)
        visible(a) == is_visible_to(a, role[1])
    IN  IF role = None THEN << >>
        ELSE SelectSeq(self.announcements, visible)

get_visible_materials(self, user) ==
    LET role == get_user_role(self, user)
        visible(m) == is_visible_to(m, role[1])
    IN  IF role = None THEN << >>
        ELSE SelectSeq(self.materials, visible)

\* Faulty variant: the status is assigned before the archived check.
activate_assigning_first(self) ==
    IF self.status = ARCHIVED
    THEN [self |-> [self EXCEPT !.status = ACTIVE],
          result |-> "Cannot activate an archived course"]
    ELSE [self |-> [self EXCEPT !.status = ACTIVE], result |-> OK]

\* Faulty variant: the archived check is missing.
activate_unchecked(self) ==
    [self |-> [self EXCEPT !.status = ACTIVE], result |-> OK]

activate(self) ==
    IF self.status = ARCHIVED
    THEN [self |-> self, result |-> "Cannot activate an archived course"]
    ELSE [self |-> [self EXCEPT !.status = ACTIVE], result |-> OK]

\* Faulty variant: archiving a course drops its enrollments.
archive_dropping_enrollments(self) ==
    [self |-> [self EXCEPT !.status = ARCHIVED, !.enrollments = << >>],
     result |-> OK]

archive(self) ==
    [self |-> [self EXCEPT !.status = ARCHIVED], result |-> OK]

\* ------------------------------------------------ CourseManagementService
\* Faulty variant: the loop ends at the first student who cannot be enrolled.
RECURSIVE bulk_enroll_students_stopping(_, _, _)
bulk_enroll_students_stopping(self, students, access_code) ==
    IF students = << >>
    THEN [self |-> self, enrollments |-> << >>, failed |-> << >>]
    ELSE LET r == enroll_student(self, Head(students), access_code)
             rest == bulk_enroll_students_stopping(r.self, Tail(students),
                                                   access_code)
         IN  IF r.result = OK
             THEN [self |-> rest.self,
                   enrollments |->
                       <<CourseEnrollment(Head(students), STUDENT)>>
                           \o rest.enrollments,
                   failed |-> rest.failed]
             ELSE [self |-> self, enrollments |-> << >>,
                   failed |-> <<<<Head(students), r.result>>>>]

\* The loop of bulk_enroll_students: enroll_student for each student in
\* order; a success adds the new enrollment to the returned list, a
\* ValueError is caught, recorded in failed, and the loop continues.
RECURSIVE bulk_enroll_students(_, _, _)
bulk_enroll_students(self, students, access_code) ==
    IF students = << >>
    THEN [self |-> self, enrollments |-> << >>, failed |-> << >>]
    ELSE LET r == enroll_student(self, Head(students), access_code)
             rest == bulk_enroll_students(r.self, Tail(students), access_code)
         IN  IF r.result = OK
             THEN [self |-> rest.self,
                   enrollments |->
                       <<CourseEnrollment(Head(students), STUDENT)>>
                           \o rest.enrollments,
                   failed |-> rest.failed]
             ELSE [self |-> rest.self,
                   enrollments |-> rest.enrollments,
                   failed |-> <<<<Head(students), r.result>>>> \o rest.failed]

\* Python's truth value of an Optional[int]: None and 0 are false.
truthy(optional_int) == optional_int # None /\ optional_int[1] # 0

\* total / max_students * 100, kept as the exact ratio num / den.
percent(total, max_students) == [num |-> total * 100, den |-> max_students]

\* Faulty variant: every enrollment is counted as a student.
get_course_statistics_counting_all(crs) ==
    LET total_students == Len(crs.enrollments)
        total_teachers == Len(SelectSeq(crs.enrollments, is_teacher))
    IN  [total_students |-> total_students,
         total_teachers |-> total_teachers,
         total_announcements |-> Len(crs.announcements),
         total_materials |-> Len(crs.materials),
         status |-> crs.status,
         enrollment_percentage |->
             IF truthy(crs.max_students)
             THEN Some(percent(total_students, crs.max_students[1]))
             ELSE None]

\* Faulty variant: the two content totals are exchanged.
get_course_statistics_exchanging_totals(crs) ==
    LET total_students == Len(SelectSeq(crs.enrollments, is_student))
        total_teachers == Len(SelectSeq(crs.enrollments, is_teacher))
    IN  [total_students |-> total_students,
         total_teachers |-> total_teachers,
         total_announcements |-> Len(crs.materials),
         total_materials |-> Len(crs.announcements),
         status |-> crs.status,
         enrollment_percentage |->
             IF truthy(crs.max_students)
             THEN Some(percent(total_students, crs.max_students[1]))
             ELSE None]

get_course_statistics(crs) ==
    LET total_students == Len(SelectSeq(crs.enrollments, is_student))
        total_teachers == Len(SelectSeq(crs.enrollments, is_teacher))
    IN  [total_students |-> total_students,
         total_teachers |-> total_teachers,
         total_announcements |-> Len(crs.announcements),
         total_materials |-> Len(crs.materials),
         status |-> crs.status,
         enrollment_percentage |->
             IF truthy(crs.max_students)
             THEN Some(percent(total_students, crs.max_students[1]))
             ELSE None]

\* ------------------------------------------------------------- Assignment
\* Faulty variant: any enrolled user may create the assignment.
Assignment_post_init_any_member(crs, created_by) ==
    IF get_user_role(crs, created_by) = None
    THEN "Only teachers can create assignments"
    ELSE OK

\* Assignment.__post_init__: the creator must hold the teacher role.
Assignment_post_init(crs, created_by) ==
    IF get_user_role(crs, created_by) # Some(TEACHER)
    THEN "Only teachers can create assignments"
    ELSE OK

\* is_past_due, with t the value datetime.now() returns for the comparison.
is_past_due(a, t) == t > a.due_date

\* Faulty variant: every enrolled user, teachers included, may submit.
can_submit_any_member(a, crs, user, t) ==
    IF get_user_role(crs, user) = None THEN FALSE
    ELSE IF is_past_due(a, t) /\ ~ a.allow_late_submissions THEN FALSE
    ELSE TRUE

can_submit(a, crs, user, t) ==
    IF get_user_role(crs, user) # Some(STUDENT) THEN FALSE
    ELSE IF is_past_due(a, t) /\ ~ a.allow_late_submissions THEN FALSE
    ELSE TRUE

\* ------------------------------------------------------------- Submission
\* Faulty variant: zero points are rejected too.
Grade_rejecting_zero(points, max_points) ==
    IF points <= 0 \/ max_points <= 0
    THEN [grade |-> None, result |-> "Invalid grade values"]
    ELSE IF points > max_points
    THEN [grade |-> None, result |-> "Points cannot exceed max points"]
    ELSE [grade |-> Some([points |-> points, max_points |-> max_points]),
          result |-> OK]

\* Faulty variant: points above max_points are accepted.
Grade_no_upper_bound(points, max_points) ==
    IF points < 0 \/ max_points <= 0
    THEN [grade |-> None, result |-> "Invalid grade values"]
    ELSE [grade |-> Some([points |-> points, max_points |-> max_points]),
          result |-> OK]

Grade(points, max_points) ==
    IF points < 0 \/ max_points <= 0
    THEN [grade |-> None, result |-> "Invalid grade values"]
    ELSE IF points > max_points
    THEN [grade |-> None, result |-> "Points cannot exceed max points"]
    ELSE [grade |-> Some([points |-> points, max_points |-> max_points]),
          result |-> OK]

\* Faulty variant: a submission at exactly the due date counts as late.
create_submission_late_at_due(a, crs, student, t_check, t_submit) ==
    IF ~ can_submit(a, crs, student, t_check)
    THEN [submission |-> None, result |-> "Student cannot submit for this assignment"]
    ELSE [submission |->
              Some([student |-> student,
                    submitted_at |-> t_submit,
                    status |-> IF t_submit >= a.due_date THEN LATE ELSE SUBMITTED,
                    grade |-> None,
                    feedback |-> None]),
          result |-> OK]

\* create_submission: t_check is the clock read inside can_submit,
\* t_submit the later read that becomes submitted_at.
create_submission(a, crs, student, t_check, t_submit) ==
    IF ~ can_submit(a, crs, student, t_check)
    THEN [submission |-> None, result |-> "Student cannot submit for this assignment"]
    ELSE [submission |->
              Some([student |-> student,
                    submitted_at |-> t_submit,
                    status |-> IF t_submit > a.due_date THEN LATE ELSE SUBMITTED,
                    grade |-> None,
                    feedback |-> None]),
          result |-> OK]

\* Faulty variant: the own-submission check comes before the role check.
add_grade_own_check_first(self, a, crs, graded_by, points, feedback) ==
    IF graded_by = self.student
    THEN [self |-> self, result |-> "Cannot grade own submission"]
    ELSE IF get_user_role(crs, graded_by) # Some(TEACHER)
    THEN [self |-> self, result |-> "Only teachers can grade submissions"]
    ELSE LET g == Grade(points, a.max_points)
         IN  IF g.result # OK
             THEN [self |-> self, result |-> g.result]
             ELSE [self |-> [self EXCEPT !.grade = g.grade,
                                         !.feedback = Some(feedback),
                                         !.status = GRADED],
                   result |-> OK]

\* Faulty variant: the grade is stored but the status is left as it was.
add_grade_keeping_status(self, a, crs, graded_by, points, feedback) ==
    IF get_user_role(crs, graded_by) # Some(TEACHER)
    THEN [self |-> self, result |-> "Only teachers can grade submissions"]
    ELSE IF graded_by = self.student
    THEN [self |-> self, result |-> "Cannot grade own submission"]
    ELSE LET g == Grade(points, a.max_points)
         IN  IF g.result # OK
             THEN [self |-> self, result |-> g.result]
             ELSE [self |-> [self EXCEPT !.grade = g.grade,
                                         !.feedback = Some(feedback)],
                   result |-> OK]

\* Faulty variant: any user other than the student may grade.
add_grade_any_grader(self, a, crs, graded_by, points, feedback) ==
    IF graded_by = self.student
    THEN [self |-> self, result |-> "Cannot grade own submission"]
    ELSE LET g == Grade(points, a.max_points)
         IN  IF g.result # OK
             THEN [self |-> self, result |-> g.result]
             ELSE [self |-> [self EXCEPT !.grade = g.grade,
                                         !.feedback = Some(feedback),
                                         !.status = GRADED],
                   result |-> OK]

\* Faulty variant: the old grade is cleared before the new one is validated.
add_grade_clearing_first(self, a, crs, graded_by, points, feedback) ==
    IF get_user_role(crs, graded_by) # Some(TEACHER)
    THEN [self |-> self, result |-> "Only teachers can grade submissions"]
    ELSE IF graded_by = self.student
    THEN [self |-> self, result |-> "Cannot grade own submission"]
    ELSE LET g == Grade(points, a.max_points)
         IN  IF g.result # OK
             THEN [self |-> [self EXCEPT !.grade = None,
                                         !.status = SUBMITTED],
                   result |-> g.result]
             ELSE [self |-> [self EXCEPT !.grade = g.grade,
                                         !.feedback = Some(feedback),
                                         !.status = GRADED],
                   result |-> OK]

add_grade(self, a, crs, graded_by, points, feedback) ==
    IF get_user_role(crs, graded_by) # Some(TEACHER)
    THEN [self |-> self, result |-> "Only teachers can grade submissions"]
    ELSE IF graded_by = self.student
    THEN [self |-> self, result |-> "Cannot grade own submission"]
    ELSE LET g == Grade(points, a.max_points)
         IN  IF g.result # OK
             THEN [self |-> self, result |-> g.result]
             ELSE [self |-> [self EXCEPT !.grade = g.grade,
                                         !.feedback = Some(feedback),
                                         !.status = GRADED],
                   result |-> OK]

is_graded(self) == self.status = GRADED

\* Faulty variant: only the stored status is consulted.
is_late_by_status(self, a) == self.status = LATE

is_late(self, a) == self.status = LATE \/ self.submitted_at > a.due_date

\* ------------------------------------------------------ AssignmentService
\* Grade.percentage: points / max_points * 100, kept as the exact ratio.
percentage(grade) == [num |-> grade.points * 100, den |-> grade.max_points]

\* The sum and the quotient of calculate_average_grade on exact ratios.
plus(a, b) == [num |-> a.num * b.den + b.num * a.den, den |-> a.den * b.den]

RECURSIVE sum(_)
sum(percentages) ==
    IF percentages = << >> THEN [num |-> 0, den |-> 1]
    ELSE plus(Head(percentages), sum(Tail(percentages)))

\* Faulty variant: the total is divided by the number of all submissions.
calculate_average_grade_over_all(subs) ==
    LET graded == SelectSeq(subs, is_graded)
        total == sum([i \in DOMAIN graded |-> percentage(graded[i].grade[1])])
    IN  IF graded = << >> THEN None
        ELSE Some([num |-> total.num, den |-> total.den * Len(subs)])

calculate_average_grade(subs) ==
    LET graded == SelectSeq(subs, is_graded)
        total == sum([i \in DOMAIN graded |-> percentage(graded[i].grade[1])])
    IN  IF graded = << >> THEN None
        ELSE Some([num |-> total.num, den |-> total.den * Len(graded)])

\* ------------------------------------------------------------ application
\* IAssignmentRepository.find_by_id: the followed assignment is the one stored.
find_assignment(stored, assignment_id) ==
    IF stored # None /\ assignment_id = AssignmentId THEN stored ELSE None

\* IUserRepository.find_by_id: every user of the model is registered.
find_user(user_id) ==
    IF user_id \in Users THEN Some(user_id) ELSE None

\* InMemorySubmissionRepository.find_by_student: the first stored submission
\* of that student for that assignment.
find_by_student(repo, student_id, assignment_id) ==
    LET match(e) == e.student = student_id /\ e.assignment = assignment_id
        found == SelectSeq(repo, match)
    IN  IF found = << >> THEN None ELSE Some(Head(found))

\* InMemorySubmissionRepository.save of a new submission: its uuid4 id is
\* fresh, so the entry is added.
save(repo, assignment_id, sub) ==
    Append(repo, [id |-> Len(repo) + 1,
                  assignment |-> assignment_id,
                  student |-> sub.student,
                  submitted_at |-> sub.submitted_at,
                  status |-> sub.status])

\* Faulty variant: the check for an existing submission is missing.
SubmitAssignmentUseCase_execute_unchecked(repo, stored, crs, assignment_id, student_id, t_check, t_submit) ==
    IF find_assignment(stored, assignment_id) = None
    THEN [repo |-> repo, result |-> "Assignment not found"]
    ELSE IF find_user(student_id) = None
    THEN [repo |-> repo, result |-> "Student not found"]
    ELSE LET r == create_submission(stored[1], crs, student_id,
                                    t_check, t_submit)
         IN  IF r.result # OK
             THEN [repo |-> repo, result |-> r.result]
             ELSE [repo |-> save(repo, assignment_id, r.submission[1]),
                   result |-> OK]

SubmitAssignmentUseCase_execute(repo, stored, crs, assignment_id, student_id, t_check, t_submit) ==
    IF find_assignment(stored, assignment_id) = None
    THEN [repo |-> repo, result |-> "Assignment not found"]
    ELSE IF find_user(student_id) = None
    THEN [repo |-> repo, result |-> "Student not found"]
    ELSE IF find_by_student(repo, student_id, assignment_id) # None
    THEN [repo |-> repo, result |-> "Assignment already submitted"]
    ELSE LET r == create_submission(stored[1], crs, student_id,
                                    t_check, t_submit)
         IN  IF r.result # OK
             THEN [repo |-> repo, result |-> r.result]
             ELSE [repo |-> save(repo, assignment_id, r.submission[1]),
                   result |-> OK]

\* AccessCode.__post_init__.
AccessCode_post_init(value) ==
    IF value = "" \/ Len(value) < 6
    THEN "Access code must be at least 6 characters"
    ELSE OK

\* UUID(int=hash(name + email) % 2**128) and
\* UUID(int=hash(title + str(course_id)) % 2**128): the identifier is a
\* function of the concatenated string alone.  Equal strings give equal
\* identifiers; different strings are taken to give different ones.
new_course_id(name, teacher) == name \o email(teacher)

new_assignment_id(title, cid) == title \o cid

CourseIds == {new_course_id(n, t) : n \in Names, t \in Users} \cup {"unknown"}

\* The save of the two dict repositories: repo[id] = entry.
repo_save(repo, id, entry) ==
    [k \in DOMAIN repo \cup {id} |-> IF k = id THEN entry ELSE repo[k]]

CreateCourseUseCase_execute(repo, teacher_id, name, access_code, max_students) ==
    IF find_user(teacher_id) = None
    THEN [repo |-> repo, result |-> "Teacher not found"]
    ELSE IF AccessCode_post_init(access_code) # OK
    THEN [repo |-> repo, result |-> AccessCode_post_init(access_code)]
    ELSE [repo |-> repo_save(repo, new_course_id(name, teacher_id),
                             [name |-> name,
                              course |-> [Course(teacher_id, DRAFT,
                                                 max_students, << >>)
                                          EXCEPT !.access_code = access_code]]),
          result |-> OK]

CreateAssignmentUseCase_execute(repo, courses, cid, teacher_id, title, max_points, due_date, allow_late) ==
    IF cid \notin DOMAIN courses
    THEN [repo |-> repo, result |-> "Course not found"]
    ELSE IF find_user(teacher_id) = None
    THEN [repo |-> repo, result |-> "Teacher not found"]
    ELSE IF Assignment_post_init(courses[cid].course, teacher_id) # OK
    THEN [repo |-> repo,
          result |-> Assignment_post_init(courses[cid].course, teacher_id)]
    ELSE [repo |-> repo_save(repo, new_assignment_id(title, cid),
                             [title |-> title,
                              course |-> cid,
                              created_by |-> teacher_id,
                              max_points |-> max_points,
                              due_date |-> due_date,
                              allow_late_submissions |-> allow_late]),
          result |-> OK]

\* ---------------------------------------------------------------- actions
\* A call that raises leaves the state as it was: the step stutters.
EnrollStudent(user, provided_code) ==
    /\ course' = enroll_student(course, user, provided_code).self
    /\ UNCHANGED <<assignment, submission, now, submission_repo, submissions,
                   average, course_repo, assignment_repo, calls, serialized>>

AddTeacher(user) ==
    /\ course' = add_teacher(course, user).self
    /\ UNCHANGED <<assignment, submission, now, submission_repo, submissions,
                   average, course_repo, assignment_repo, calls, serialized>>

Activate ==
    /\ course' = activate(course).self
    /\ UNCHANGED <<assignment, submission, now, submission_repo, submissions,
                   average, course_repo, assignment_repo, calls, serialized>>

Archive ==
    /\ course' = archive(course).self
    /\ UNCHANGED <<assignment, submission, now, submission_repo, submissions,
                   average, course_repo, assignment_repo, calls, serialized>>

BulkEnrollStudents(students, access_code) ==
    /\ course' = bulk_enroll_students(course, students, access_code).self
    /\ UNCHANGED <<assignment, submission, now, submission_repo, submissions,
                   average, course_repo, assignment_repo, calls, serialized>>

\* The model keeps at most MaxItems content items in a course.
PostAnnouncement(user, visibility) ==
    /\ Len(course.announcements) + Len(course.materials) < MaxItems
    /\ course' = post_announcement(course, user, visibility).self
    /\ UNCHANGED <<assignment, submission, now, submission_repo, submissions,
                   average, course_repo, assignment_repo, calls, serialized>>

AddMaterial(user, visibility) ==
    /\ Len(course.announcements) + Len(course.materials) < MaxItems
    /\ course' = add_material(course, user, visibility).self
    /\ UNCHANGED <<assignment, submission, now, submission_repo, submissions,
                   average, course_repo, assignment_repo, calls, serialized>>

\* Assignment(...): one assignment is followed, so the constructor is
\* called while there is none.
NewAssignment(created_by, max_points, due_date, allow_late) ==
    /\ assignment = None
    /\ assignment' =
           IF Assignment_post_init(course, created_by) = OK
           THEN Some([created_by |-> created_by,
                      max_points |-> max_points,
                      due_date |-> due_date,
                      allow_late_submissions |-> allow_late])
           ELSE None
    /\ UNCHANGED <<course, submission, now, submission_repo, submissions,
                   average, course_repo, assignment_repo, calls, serialized>>

\* Submission.create_submission: the clock is read in can_submit and, when
\* that allows the submission, again for submitted_at; it may have advanced
\* since the last read and between the two.
CreateSubmission(student, t_check, t_submit) ==
    /\ assignment # None
    /\ submission = None
    /\ now <= t_check
    /\ t_check <= t_submit
    /\ LET r == create_submission(assignment[1], course, student,
                                  t_check, t_submit)
       IN  /\ submission' = r.submission
           /\ now' = IF r.result = OK THEN t_submit ELSE t_check
    /\ UNCHANGED <<course, assignment, submission_repo, submissions, average,
                   course_repo, assignment_repo, calls, serialized>>

\* SubmitAssignmentUseCase.execute; the clock is read only when the call
\* gets as far as create_submission.  The model stores at most MaxStored
\* submissions.
SubmitAssignment(assignment_id, student_id, t_check, t_submit) ==
    /\ Len(submission_repo) < MaxStored
    /\ now <= t_check
    /\ t_check <= t_submit
    /\ LET r == SubmitAssignmentUseCase_execute(
                    submission_repo, assignment, course, assignment_id,
                    student_id, t_check, t_submit)
       IN  /\ submission_repo' = r.repo
           /\ now' = IF r.result = OK THEN t_submit
                     ELSE IF r.result = "Student cannot submit for this assignment"
                     THEN t_check
                     ELSE now
    /\ UNCHANGED <<course, assignment, submission, submissions, average,
                   course_repo, assignment_repo, calls, serialized>>

AddGrade(graded_by, points, feedback) ==
    /\ submission # None
    /\ submission' = Some(add_grade(submission[1], assignment[1], course,
                                    graded_by, points, feedback).self)
    /\ UNCHANGED <<course, assignment, now, submission_repo, submissions,
                   average, course_repo, assignment_repo, calls, serialized>>

\* AssignmentService.calculate_average_grade on the list at hand.
CalculateAverageGrade ==
    /\ average' = Some(calculate_average_grade(submissions))
    /\ UNCHANGED <<course, assignment, submission, now, submission_repo,
                   submissions, course_repo, assignment_repo, calls,
                   serialized>>

\* CreateCourseUseCase.execute; the model stores at most MaxCourses courses.
CreateCourse(teacher_id, name, access_code, max_students) ==
    /\ Cardinality(DOMAIN course_repo) < MaxCourses
    /\ course_repo' = CreateCourseUseCase_execute(
                          course_repo, teacher_id, name, access_code,
                          max_students).repo
    /\ UNCHANGED <<course, assignment, submission, now, submission_repo,
                   submissions, average, assignment_repo, calls, serialized>>

\* CreateAssignmentUseCase.execute; the model stores at most MaxAssignments
\* assignments.
CreateAssignment(cid, teacher_id, title, max_points, due_date, allow_late) ==
    /\ Cardinality(DOMAIN assignment_repo) < MaxAssignments
    /\ assignment_repo' = CreateAssignmentUseCase_execute(
                              assignment_repo, course_repo, cid,
                              teacher_id, title, max_points, due_date,
                              allow_late).repo
    /\ UNCHANGED <<course, assignment, submission, now, submission_repo,
                   submissions, average, course_repo, calls, serialized>>

\* enroll_student run by a thread of a concurrent host, in two steps.  The
\* first makes the four checks: a failing one raises and the call is over;
\* otherwise the thread is about to append.  A host that serializes the
\* mutating calls lets a call begin only while no other is under way.
no_call_under_way == \A t \in Threads : calls[t] = None

may_begin == ~ serialized \/ no_call_under_way

EnrollStudentChecks(thread, user, provided_code) ==
    /\ may_begin
    /\ calls[thread] = None
    /\ calls' = [calls EXCEPT ![thread] =
                     IF enroll_student(course, user, provided_code).result = OK
                     THEN Some(user)
                     ELSE None]
    /\ UNCHANGED <<course, assignment, submission, now, submission_repo,
                   submissions, average, course_repo, assignment_repo,
                   serialized>>

\* The second step: self.enrollments.append(enrollment).
EnrollStudentAppend(thread) ==
    /\ calls[thread] # None
    /\ course' = [course EXCEPT !.enrollments =
                      Append(@, CourseEnrollment(calls[thread][1], STUDENT))]
    /\ calls' = [calls EXCEPT ![thread] = None]
    /\ UNCHANGED <<assignment, submission, now, submission_repo, submissions,
                   average, course_repo, assignment_repo, serialized>>

\* ---------------------------------------------------------- specification
UserLists == UNION {[1 .. n -> Users] : n \in 0 .. MaxBulk}

EnrollmentLists ==
    UNION {[1 .. n -> [user : Users, role : UserRole]] :
               n \in 0 .. MaxInitialEnrollments}

\* A course constructed with the default (empty) enrollment list.
Init ==
    /\ \E st \in CourseStatus, cap \in Capacities :
           course = Course(Creator, st, cap, << >>)
    /\ assignment = None
    /\ submission = None
    /\ now = 0
    /\ serialized = TRUE
    /\ calls = [t \in Threads |-> None]
    /\ assignment_repo = << >>
    /\ course_repo = << >>
    /\ average = None
    /\ submissions = << >>
    /\ submission_repo = << >>

\* A course constructed with any enrollment list the caller passes.
InitCtor ==
    /\ \E st \in CourseStatus, cap \in Capacities, es \in EnrollmentLists :
           course = Course(Creator, st, cap, es)
    /\ assignment = None
    /\ submission = None
    /\ now = 0
    /\ serialized = TRUE
    /\ calls = [t \in Threads |-> None]
    /\ assignment_repo = << >>
    /\ course_repo = << >>
    /\ average = None
    /\ submissions = << >>
    /\ submission_repo = << >>

\* The submissions create_submission and add_grade produce, as far as
\* calculate_average_grade reads them: ungraded ones of status submitted or
\* late, and graded ones with a valid grade.
Student == CHOOSE u \in Users : u # Creator

GradedSubmissions ==
    {[student |-> Student, submitted_at |-> 0, status |-> GRADED,
      grade |-> Grade(p, mp).grade, feedback |-> Some("")] :
        <<p, mp>> \in {pm \in PointValues \X MaxPointValues :
                          Grade(pm[1], pm[2]).result = OK}}

UngradedSubmissions ==
    {[student |-> Student, submitted_at |-> 0, status |-> st,
      grade |-> None, feedback |-> None] : st \in {SUBMITTED, LATE}}

SubmissionLists ==
    UNION {[1 .. n -> GradedSubmissions \cup UngradedSubmissions] :
               n \in 0 .. MaxSubmissions}

\* Any list of submissions is handed to calculate_average_grade.
InitAverage ==
    /\ course = Course(Creator, ACTIVE, None, << >>)
    /\ assignment = None
    /\ submission = None
    /\ now = 0
    /\ submission_repo = << >>
    /\ submissions \in SubmissionLists
    /\ serialized = TRUE
    /\ calls = [t \in Threads |-> None]
    /\ assignment_repo = << >>
    /\ course_repo = << >>
    /\ average = None

AverageNext == CalculateAverageGrade

\* Both repositories are empty.
InitCreate ==
    /\ course = Course(Creator, DRAFT, None, << >>)
    /\ assignment = None
    /\ submission = None
    /\ now = 0
    /\ submission_repo = << >>
    /\ submissions = << >>
    /\ average = None
    /\ course_repo = << >>
    /\ serialized = TRUE
    /\ calls = [t \in Threads |-> None]
    /\ assignment_repo = << >>

\* The two use cases that create aggregates; the capacity is unset or the
\* largest one, and every assignment is due at the latest time and takes no
\* late submission.
CreateNext ==
    \/ \E t \in UserIds, n \in Names, c \in Codes,
          cap \in {None, Some(MaxCap)} :
           CreateCourse(t, n, c, cap)
    \/ \E cid \in CourseIds, t \in UserIds, ti \in Titles,
          mp \in MaxPointValues :
           CreateAssignment(cid, t, ti, mp, MaxTime, FALSE)

\* A course called from several threads; the host serializes the mutating
\* calls or it does not.
InitConcurrent ==
    /\ \E st \in CourseStatus, cap \in Capacities :
           course = Course(Creator, st, cap, << >>)
    /\ assignment = None
    /\ submission = None
    /\ now = 0
    /\ submission_repo = << >>
    /\ submissions = << >>
    /\ average = None
    /\ course_repo = << >>
    /\ assignment_repo = << >>
    /\ calls = [t \in Threads |-> None]
    /\ serialized \in BOOLEAN

\* The other methods take one step each; a serializing host runs them only
\* while no enroll_student call is under way.
ConcurrentNext ==
    \/ \E t \in Threads, u \in Users, c \in Codes :
           EnrollStudentChecks(t, u, c)
    \/ \E t \in Threads : EnrollStudentAppend(t)
    \/ may_begin /\ \E u \in Users : AddTeacher(u)
    \/ may_begin /\ Activate
    \/ may_begin /\ Archive

\* The methods of the three aggregates.
Next ==
    \/ \E u \in Users, c \in Codes : EnrollStudent(u, c)
    \/ \E u \in Users : AddTeacher(u)
    \/ Activate
    \/ Archive
    \/ \E u \in Users, mp \in MaxPointValues, d \in Times, al \in BOOLEAN :
           NewAssignment(u, mp, d, al)
    \/ \E u \in Users, t1 \in Times, t2 \in Times : CreateSubmission(u, t1, t2)
    \/ \E u \in Users, p \in PointValues, f \in Feedbacks : AddGrade(u, p, f)

\* The methods of Course that change it, and the bulk enrollment service.
CourseNext ==
    \/ \E u \in Users, c \in Codes : EnrollStudent(u, c)
    \/ \E u \in Users : AddTeacher(u)
    \/ Activate
    \/ Archive
    \/ \E us \in UserLists, c \in Codes : BulkEnrollStudents(us, c)

\* The course, its assignment and the use case that submits work.
SubmitNext ==
    \/ \E u \in Users, c \in Codes : EnrollStudent(u, c)
    \/ \E u \in Users : AddTeacher(u)
    \/ Activate
    \/ Archive
    \/ \E u \in Users, mp \in MaxPointValues, d \in Times, al \in BOOLEAN :
           NewAssignment(u, mp, d, al)
    \/ \E a \in AssignmentIds, u \in UserIds, t1 \in Times, t2 \in Times :
           SubmitAssignment(a, u, t1, t2)

\* The methods of Course, content included.
ContentNext ==
    \/ \E u \in Users, c \in Codes : EnrollStudent(u, c)
    \/ \E u \in Users : AddTeacher(u)
    \/ Activate
    \/ Archive
    \/ \E u \in Users, v \in ContentVisibility : PostAnnouncement(u, v)
    \/ \E u \in Users, v \in ContentVisibility : AddMaterial(u, v)

Spec == Init /\ [][Next]_vars

SpecCourse == Init /\ [][CourseNext]_vars

SpecCtor == InitCtor /\ [][CourseNext]_vars

SpecContent == Init /\ [][ContentNext]_vars

SpecSubmit == Init /\ [][SubmitNext]_vars

SpecAverage == InitAverage /\ [][AverageNext]_vars

SpecCreate == InitCreate /\ [][CreateNext]_vars

SpecConcurrent == InitConcurrent /\ [][ConcurrentNext]_vars

\* ------------------------------------------------------------------ claims
\* The student-role enrollments of a course, in order.
students_of(self) == SelectSeq(self.enrollments, is_student)

\* The positions at which a user is enrolled.
enrollments_of(self, user) ==
    {i \in DOMAIN self.enrollments : self.enrollments[i].user = user}

\* C1: with max_students = N the number of student-role enrollments never
\* exceeds N, and at N students a further enrollment of a new user with the
\* right code into the active course is refused for capacity.
C1_StudentCountWithinCapacity ==
    course.max_students # None =>
        /\ student_count(course.enrollments) <= course.max_students[1]
        /\ (is_active(course)
              /\ student_count(course.enrollments) = course.max_students[1]) =>
               \A u \in Users :
                   ~ is_enrolled(course, u) =>
                       enroll_student(course, u, course.access_code).result
                           = "Course has reached maximum enrollment"

\* C1 witness: an active course filled to a capacity of at least one, with a
\* user left who is not enrolled.
C1_Witness ==
    /\ is_active(course)
    /\ course.max_students # None
    /\ course.max_students[1] >= 1
    /\ student_count(course.enrollments) = course.max_students[1]
    /\ \E u \in Users : ~ is_enrolled(course, u)

\* C2: each user appears in enrollments at most once, and enroll_student and
\* add_teacher both refuse a user who is already enrolled, in either role.
C2_UserEnrolledAtMostOnce ==
    /\ \A u \in Users : Cardinality(enrollments_of(course, u)) <= 1
    /\ \A u \in Users :
           is_enrolled(course, u) =>
               /\ add_teacher(course, u).result # OK
               /\ add_teacher(course, u).self = course
               /\ \A c \in Codes :
                      /\ enroll_student(course, u, c).result # OK
                      /\ enroll_student(course, u, c).self = course

\* C2 witness: a student and a second teacher are enrolled beside the creator.
C2_Witness ==
    /\ Len(course.enrollments) >= 3
    /\ \E i \in DOMAIN course.enrollments : is_student(course.enrollments[i])
    /\ \E i \in DOMAIN course.enrollments :
           /\ is_teacher(course.enrollments[i])
           /\ course.enrollments[i].user # course.created_by

\* C3 (as claimed): whatever enrollment list the constructor is given, the
\* creator is enrolled exactly once, and as teacher.
C3_CreatorEnrolledOnceAsTeacher ==
    /\ Cardinality(enrollments_of(course, course.created_by)) = 1
    /\ \A i \in enrollments_of(course, course.created_by) :
           is_teacher(course.enrollments[i])

\* C4: enroll_student with a code other than the stored one fails and leaves
\* the enrollments as they were, whatever the status and the user.
C4_WrongCodeLeavesEnrollments ==
    \A u \in Users, c \in Codes :
        c # course.access_code =>
            /\ enroll_student(course, u, c).result # OK
            /\ enroll_student(course, u, c).self.enrollments = course.enrollments

\* C4 witness: an active course with a student, room for more and a user not
\* yet enrolled, so that the code is the only thing in the way.
C4_Witness ==
    /\ can_accept_students(course)
    /\ student_count(course.enrollments) >= 1
    /\ \E u \in Users : ~ is_enrolled(course, u)

\* C5 (as claimed): with allow_late_submissions = False no submission exists
\* whose submitted_at is after the due date, hence none with status late.
C5_NoLateSubmissionWhenDisallowed ==
    (submission # None /\ ~ assignment[1].allow_late_submissions) =>
        /\ submission[1].submitted_at <= assignment[1].due_date
        /\ submission[1].status # LATE

\* C6 (as claimed): once a submission is graded, its grade, feedback and
\* status never change again.
C6_GradedSubmissionNeverChanges ==
    [][(submission # None /\ is_graded(submission[1])) =>
           /\ submission' # None
           /\ submission'[1].grade = submission[1].grade
           /\ submission'[1].feedback = submission[1].feedback
           /\ submission'[1].status = submission[1].status]_vars

\* C6 (amended): once a submission is graded its status stays graded; its
\* grade and feedback change only to the valid points (0 <= points <=
\* max_points) and the feedback that a teacher of the course other than the
\* student gives in a later add_grade.
C6_GradedChangesOnlyByRegrading ==
    [][(submission # None /\ is_graded(submission[1])) =>
           /\ submission' # None
           /\ submission'[1].status = GRADED
           /\ (\/ submission'[1].grade # submission[1].grade
               \/ submission'[1].feedback # submission[1].feedback) =>
                  \E u \in Users, p \in PointValues, f \in Feedbacks :
                      /\ get_user_role(course, u) = Some(TEACHER)
                      /\ u # submission[1].student
                      /\ 0 <= p
                      /\ p <= assignment[1].max_points
                      /\ submission'[1].grade =
                             Some([points |-> p,
                                   max_points |-> assignment[1].max_points])
                      /\ submission'[1].feedback = Some(f)]_vars

\* C6 witness: a graded submission that carries the full points and a
\* non-empty feedback.
C6_Witness ==
    /\ submission # None
    /\ is_graded(submission[1])
    /\ submission[1].grade[1].points = assignment[1].max_points
    /\ submission[1].feedback # Some("")

\* C7: add_grade on an ungraded submission by a user without the teacher
\* role in the course, or by the submission's student, fails and leaves the
\* submission as it was: status submitted or late, no grade, same feedback.
C7_NonTeacherCannotGrade ==
    (submission # None /\ ~ is_graded(submission[1])) =>
        \A u \in Users, p \in PointValues, f \in Feedbacks :
            (get_user_role(course, u) # Some(TEACHER)
               \/ u = submission[1].student) =>
                LET r == add_grade(submission[1], assignment[1], course, u, p, f)
                IN  /\ r.result # OK
                    /\ r.self = submission[1]
                    /\ r.self.status \in {SUBMITTED, LATE}
                    /\ r.self.grade = None

\* C7 witness: an ungraded submission while some user is not enrolled at all.
C7_Witness ==
    /\ submission # None
    /\ ~ is_graded(submission[1])
    /\ \E u \in Users : ~ is_enrolled(course, u)

\* C8: once is_graded() is true of the submission it is true ever after.
C8_GradingIsMonotonic ==
    [][(submission # None /\ is_graded(submission[1])) =>
           (submission' # None /\ is_graded(submission'[1]))]_vars

\* C8 witness: a graded submission in a course that has since been archived.
C8_Witness ==
    /\ submission # None
    /\ is_graded(submission[1])
    /\ course.status = ARCHIVED

StatusChanges ==
    {<<DRAFT, ACTIVE>>, <<DRAFT, ARCHIVED>>, <<ACTIVE, ARCHIVED>>}

\* C9: activate fails exactly when the course is archived and otherwise makes
\* it active; archive always succeeds and makes it archived; the status
\* changes only by activate or archive, and only along draft -> active,
\* draft -> archived, active -> archived.
C9_StatusMachine ==
    /\ [](/\ activate(course).result # OK <=> course.status = ARCHIVED
          /\ activate(course).result # OK => activate(course).self = course
          /\ activate(course).result = OK =>
                 activate(course).self = [course EXCEPT !.status = ACTIVE]
          /\ archive(course).result = OK
          /\ archive(course).self = [course EXCEPT !.status = ARCHIVED])
    /\ [][course'.status # course.status =>
              /\ <<course.status, course'.status>> \in StatusChanges
              /\ Activate \/ Archive]_vars

\* C9 witness: an archived course that holds a student, so it was active
\* before it was archived.
C9_Witness ==
    /\ course.status = ARCHIVED
    /\ student_count(course.enrollments) >= 1

\* C10: an archived course stays archived, activate and every enroll_student
\* fail on it (the latter as "not active"), and its student enrollments
\* never change again.
C10_ArchivedIsTerminal ==
    /\ [](course.status = ARCHIVED =>
              /\ activate(course).result = "Cannot activate an archived course"
              /\ \A u \in Users, c \in Codes :
                     /\ enroll_student(course, u, c).result = "Course is not active"
                     /\ enroll_student(course, u, c).self = course)
    /\ [][course.status = ARCHIVED =>
              /\ course'.status = ARCHIVED
              /\ students_of(course') = students_of(course)]_vars

\* C10 witness: an archived course with room left for students and a user
\* who is not enrolled.
C10_Witness ==
    /\ course.status = ARCHIVED
    /\ course.max_students = None
    /\ student_count(course.enrollments) >= 1
    /\ \E u \in Users : ~ is_enrolled(course, u)

\* Whether the enrollments bind the user to the role.
holds_role(self, user, role) ==
    \E i \in DOMAIN self.enrollments :
        self.enrollments[i] = [user |-> user, role |-> role]

\* C11: with allow_late_submissions = True a student's create_submission
\* after the due date succeeds with status late; every submission that
\* create_submission returns is late if its submitted_at is strictly after
\* the due date and submitted otherwise (at the due date: submitted).
C11_LateIffAfterDueDate ==
    /\ assignment # None =>
           \A u \in Users, t1 \in Times, t2 \in Times :
               t1 <= t2 =>
                   LET a == assignment[1]
                       r == create_submission(a, course, u, t1, t2)
                   IN  /\ (/\ a.allow_late_submissions
                           /\ holds_role(course, u, STUDENT)
                           /\ t1 > a.due_date) =>
                              /\ r.result = OK
                              /\ r.submission[1].status = LATE
                       /\ r.result = OK =>
                              /\ r.submission[1].submitted_at = t2
                              /\ t2 > a.due_date => r.submission[1].status = LATE
                              /\ t2 <= a.due_date =>
                                     r.submission[1].status = SUBMITTED
    /\ (submission # None /\ ~ is_graded(submission[1])) =>
           /\ submission[1].status \in {SUBMITTED, LATE}
           /\ submission[1].status = LATE <=>
                  submission[1].submitted_at > assignment[1].due_date

\* C11 witness: a late submission for an assignment that allows late ones.
C11_Witness ==
    /\ submission # None
    /\ submission[1].status = LATE
    /\ assignment[1].allow_late_submissions

\* C12: constructing an Assignment succeeds exactly when created_by is
\* enrolled in the course as teacher; students and users who are not
\* enrolled are refused.
C12_AssignmentCreatorIsTeacher ==
    /\ \A u \in Users :
           Assignment_post_init(course, u) = OK <=> holds_role(course, u, TEACHER)
    /\ assignment # None =>
           holds_role(course, assignment[1].created_by, TEACHER)

\* C12 witness: an assignment created by a teacher other than the course's
\* creator, in a course that also has a student.
C12_Witness ==
    /\ assignment # None
    /\ assignment[1].created_by # course.created_by
    /\ student_count(course.enrollments) >= 1

\* C13: can_submit is false for every user who is not enrolled as student,
\* whatever the time, the due date and allow_late_submissions, and
\* create_submission fails for such a user.
C13_OnlyStudentsCanSubmit ==
    /\ assignment # None =>
           \A u \in Users :
               ~ holds_role(course, u, STUDENT) =>
                   \A t1 \in Times, t2 \in Times :
                       /\ ~ can_submit(assignment[1], course, u, t1)
                       /\ create_submission(assignment[1], course, u,
                                            t1, t2).result # OK
                       /\ create_submission(assignment[1], course, u,
                                            t1, t2).submission = None
    /\ submission # None => holds_role(course, submission[1].student, STUDENT)

\* C13 witness: an assignment that allows late submissions, in a course with
\* a second teacher and a user who is not enrolled.
C13_Witness ==
    /\ assignment # None
    /\ assignment[1].allow_late_submissions
    /\ \E u \in Users : u # course.created_by /\ holds_role(course, u, TEACHER)
    /\ \E u \in Users : ~ is_enrolled(course, u)

\* C16: add_grade by a teacher of the course who is not the submission's
\* student succeeds exactly when max_points > 0 and 0 <= points <=
\* max_points; it then stores these points with the assignment's max_points,
\* the given feedback and the status graded.
C16_GradeValidation ==
    submission # None =>
        \A u \in Users, p \in PointValues, f \in Feedbacks :
            (holds_role(course, u, TEACHER) /\ u # submission[1].student) =>
                LET mp == assignment[1].max_points
                    r == add_grade(submission[1], assignment[1], course, u, p, f)
                IN  /\ r.result = OK <=> (mp > 0 /\ 0 <= p /\ p <= mp)
                    /\ r.result = OK =>
                           /\ r.self.grade =
                                  Some([points |-> p, max_points |-> mp])
                           /\ r.self.feedback = Some(f)
                           /\ r.self.status = GRADED

\* C16 witness: a submission graded with zero points.
C16_Witness ==
    /\ submission # None
    /\ is_graded(submission[1])
    /\ submission[1].grade[1].points = 0

\* The last item of a collection was created by user with the visibility.
appended(before, after, user, visibility) ==
    /\ Len(after) = Len(before) + 1
    /\ SubSeq(after, 1, Len(before)) = before
    /\ after[Len(after)].created_by = user
    /\ after[Len(after)].visibility = visibility

\* C14: in every course status, post_announcement and add_material succeed
\* exactly for a caller enrolled as teacher; a success appends exactly one
\* item, created by the caller with the requested visibility, at the end of
\* its own collection and changes nothing else; a failure is the
\* "Only teachers" error.
C14_OnlyTeachersPostContent ==
    \A u \in Users, v \in ContentVisibility :
        LET p == post_announcement(course, u, v)
            m == add_material(course, u, v)
        IN  /\ p.result = OK <=> holds_role(course, u, TEACHER)
            /\ m.result = OK <=> holds_role(course, u, TEACHER)
            /\ p.result # OK => p.result = "Only teachers can post announcements"
            /\ m.result # OK => m.result = "Only teachers can add materials"
            /\ p.result = OK =>
                   /\ appended(course.announcements, p.self.announcements, u, v)
                   /\ p.self = [course EXCEPT !.announcements = p.self.announcements]
            /\ m.result = OK =>
                   /\ appended(course.materials, m.self.materials, u, v)
                   /\ m.self = [course EXCEPT !.materials = m.self.materials]

\* A draft course holding an announcement posted by a teacher other than the
\* creator and a material, both posted while the course was a draft.
C14_Witness ==
    /\ course.status = DRAFT
    /\ Len(course.announcements) = 1
    /\ course.announcements[1].created_by # Creator
    /\ course.announcements[1].visibility = TEACHERS_ONLY
    /\ Len(course.materials) = 1

visible_to_all(item) == item.visibility = ALL

\* C15: get_visible_announcements and get_visible_materials return nothing
\* to a user who is not enrolled, the whole collection to a teacher, and to
\* a student exactly the items of visibility "all", in insertion order.
C15_VisibilityFilter ==
    \A u \in Users :
        LET va == get_visible_announcements(course, u)
            vm == get_visible_materials(course, u)
        IN  /\ (\A i \in DOMAIN course.enrollments :
                    course.enrollments[i].user # u) =>
                   va = << >> /\ vm = << >>
            /\ holds_role(course, u, TEACHER) =>
                   va = course.announcements /\ vm = course.materials
            /\ holds_role(course, u, STUDENT) =>
                   /\ va = SelectSeq(course.announcements, visible_to_all)
                   /\ vm = SelectSeq(course.materials, visible_to_all)

\* A student is enrolled and the course holds a teachers-only announcement
\* followed by one for all: the student sees the second one only.
C15_Witness ==
    /\ \E u \in Users : holds_role(course, u, STUDENT)
    /\ Len(course.announcements) = 2
    /\ course.announcements[1].visibility = TEACHERS_ONLY
    /\ course.announcements[2].visibility = ALL

\* The course after its creator has posted a teachers-only announcement and
\* a material for all.
with_content(crs) ==
    add_material(post_announcement(crs, Creator, TEACHERS_ONLY).self,
                 Creator, ALL).self

\* Every failing call of the five mutating methods of Course on crs returns
\* crs as it was.
course_failures_keep(crs) ==
    /\ \A u \in Users, c \in Codes :
           LET r == enroll_student(crs, u, c)
           IN  r.result # OK => r.self = crs
    /\ \A u \in Users :
           LET r == add_teacher(crs, u)
           IN  r.result # OK => r.self = crs
    /\ \A u \in Users, v \in ContentVisibility :
           LET p == post_announcement(crs, u, v)
               m == add_material(crs, u, v)
           IN  /\ p.result # OK => p.self = crs
               /\ m.result # OK => m.self = crs
    /\ LET r == activate(crs)
       IN  r.result # OK => r.self = crs

\* C17: a failing call of enroll_student, add_teacher, post_announcement,
\* add_material or activate leaves the course, with or without content,
\* exactly as it was, and a failing call of add_grade (not a teacher, own
\* submission, or points rejected by Grade) leaves the submission, graded
\* or not, exactly as it was.
C17_FailureLeavesStateUnchanged ==
    /\ course_failures_keep(course)
    /\ course_failures_keep(with_content(course))
    /\ submission # None =>
           \A u \in Users, p \in PointValues, f \in Feedbacks :
               LET r == add_grade(submission[1], assignment[1], course, u, p, f)
               IN  r.result # OK => r.self = submission[1]

\* An archived course with a student and a graded submission: activate
\* fails, the student may not post, and a too-large regrade is rejected.
C17_Witness ==
    /\ course.status = ARCHIVED
    /\ \E u \in Users : holds_role(course, u, STUDENT)
    /\ submission # None
    /\ is_graded(submission[1])
    /\ \E u \in Users, p \in PointValues :
           add_grade(submission[1], assignment[1], course, u, p, "").result
               = "Points cannot exceed max points"

\* The course after enroll_student has been called on the first k students
\* of the list, one call after the other, failures discarded.
RECURSIVE course_after(_, _, _)
course_after(students, code, k) ==
    IF k = 0 THEN course
    ELSE enroll_student(course_after(students, code, k - 1),
                        students[k], code).self

\* The enrollments those k calls returned, in order.
RECURSIVE returned_by(_, _, _)
returned_by(students, code, k) ==
    IF k = 0 THEN << >>
    ELSE IF enroll_student(course_after(students, code, k - 1),
                           students[k], code).result = OK
         THEN Append(returned_by(students, code, k - 1),
                     [user |-> students[k], role |-> STUDENT])
         ELSE returned_by(students, code, k - 1)

\* C18: bulk_enroll_students handles every student of the list, each one
\* either returned or recorded as failed; its returned list and the course
\* it leaves are those of enroll_student called on each student in order
\* with the failures discarded; the returned enrollments are appended to
\* the course and their number is the increase of the student count.
C18_BulkEnrollIsSequentialEnroll ==
    \A students \in UserLists, code \in Codes :
        LET r == bulk_enroll_students(course, students, code)
            n == Len(students)
        IN  /\ r.self = course_after(students, code, n)
            /\ r.enrollments = returned_by(students, code, n)
            /\ Len(r.enrollments) + Len(r.failed) = n
            /\ r.self = [course EXCEPT !.enrollments = @ \o r.enrollments]
            /\ Len(r.enrollments) =
                   Len(students_of(r.self)) - Len(students_of(course))

\* A course in which a bulk call fails for its first student and enrolls
\* its second one.
C18_Witness ==
    \E students \in UserLists :
        /\ Len(students) = 2
        /\ enroll_student(course, students[1], StoredCode).result # OK
        /\ Len(bulk_enroll_students(course, students, StoredCode).enrollments) = 1
        /\ Len(students_of(course)) = 1

\* The positions at which the repository holds a submission of the student
\* for the assignment.
stored_for(student_id, assignment_id) ==
    {i \in DOMAIN submission_repo :
        /\ submission_repo[i].student = student_id
        /\ submission_repo[i].assignment = assignment_id}

\* C19: the repository never holds two submissions of one student for one
\* assignment; an execute for a pair that has a stored submission fails
\* with "Assignment already submitted"; every failing execute stores
\* nothing and every successful one adds exactly one submission, that of
\* the pair it was called for.
C19_OneSubmissionPerStudentAndAssignment ==
    /\ \A u \in UserIds, a \in AssignmentIds :
           Cardinality(stored_for(u, a)) <= 1
    /\ \A u \in UserIds, a \in AssignmentIds, t1 \in Times, t2 \in Times :
           LET r == SubmitAssignmentUseCase_execute(
                        submission_repo, assignment, course, a, u, t1, t2)
               n == Len(submission_repo)
           IN  /\ stored_for(u, a) # {} =>
                      r.result = "Assignment already submitted"
               /\ r.result # OK => r.repo = submission_repo
               /\ r.result = OK =>
                      /\ Len(r.repo) = n + 1
                      /\ SubSeq(r.repo, 1, n) = submission_repo
                      /\ r.repo[n + 1].student = u
                      /\ r.repo[n + 1].assignment = a

\* One submission is stored and its student could submit again as far as
\* the assignment and the course are concerned: only the check of the use
\* case rejects the second execute.
C19_Witness ==
    /\ Len(submission_repo) = 1
    /\ create_submission(assignment[1], course, submission_repo[1].student,
                         now, now).result = OK

\* The number of student-role enrollments of the course.
number_of_students ==
    Cardinality({i \in DOMAIN course.enrollments :
                    course.enrollments[i].role = STUDENT})

\* The reported percentage is the ratio student count / max_students * 100.
reports_ratio(p) ==
    /\ p # None
    /\ p[1].den = course.max_students[1]
    /\ p[1].num = number_of_students * 100

\* C20 as stated: enrollment_percentage is null when max_students is None
\* and is student count / max_students * 100 for every set max_students.
C20_PercentageForEverySetCapacity ==
    LET p == get_course_statistics(course).enrollment_percentage
    IN  /\ course.max_students = None => p = None
        /\ course.max_students # None => reports_ratio(p)

\* C20: enrollment_percentage is null when max_students is None or 0, and
\* is student count / max_students * 100 for every other set max_students.
C20_PercentageUnlessNoneOrZero ==
    LET p == get_course_statistics(course).enrollment_percentage
    IN  /\ course.max_students = None => p = None
        /\ course.max_students = Some(0) => p = None
        /\ (course.max_students # None /\ course.max_students # Some(0)) =>
               reports_ratio(p)

\* A course of capacity 2 with a second teacher and one student: 50 percent.
C20_Witness ==
    /\ course.max_students = Some(2)
    /\ number_of_students = 1
    /\ Len(course.enrollments) = 3
    /\ get_course_statistics(course).enrollment_percentage
           = Some([num |-> 100, den |-> 2])

\* The positions of the graded submissions of the list.
graded_positions ==
    {i \in DOMAIN submissions : submissions[i].status = GRADED}

\* For the first k submissions of the list: the product of max_points over
\* the graded ones, and the sum over them of 100 * points * (that product
\* / max_points), which is the sum of their percentages times the product.
RECURSIVE max_product(_)
max_product(k) ==
    IF k = 0 THEN 1
    ELSE IF k \in graded_positions
         THEN max_product(k - 1) * submissions[k].grade[1].max_points
         ELSE max_product(k - 1)

RECURSIVE scaled_percentages(_)
scaled_percentages(k) ==
    IF k = 0 THEN 0
    ELSE IF k \in graded_positions
         THEN scaled_percentages(k - 1) * submissions[k].grade[1].max_points
                  + 100 * submissions[k].grade[1].points * max_product(k - 1)
         ELSE scaled_percentages(k - 1)

\* C21: calculate_average_grade returns none exactly when no submission of
\* the list is graded; otherwise the value it returns, times the number of
\* graded submissions, is the sum of points / max_points * 100 over the
\* graded submissions alone.
C21_AverageOverGradedOnly ==
    average # None =>
        LET n == Cardinality(graded_positions)
            all == Len(submissions)
            r == average[1]
        IN  /\ r = None <=> graded_positions = {}
            /\ r # None =>
                   /\ r[1].den > 0
                   /\ r[1].num * n * max_product(all)
                          = r[1].den * scaled_percentages(all)

\* The average of a list holding a submission graded 100 percent, one graded
\* 0 percent and a late one that is not graded has been calculated.
C21_Witness ==
    /\ average # None
    /\ Len(submissions) = 3
    /\ submissions[1].grade = Some([points |-> 1, max_points |-> 1])
    /\ submissions[2].status = LATE
    /\ submissions[3].grade = Some([points |-> 0, max_points |-> 1])
    /\ average[1] # None
    /\ average[1][1].num * 2 = average[1][1].den * 100

\* The number of enrollments of the course that carry the role.
number_with_role(role) ==
    Cardinality({i \in DOMAIN course.enrollments :
                    course.enrollments[i].role = role})

\* C22: in every status, with any capacity and any number of students,
\* add_teacher succeeds exactly for a user who has no enrollment, and then
\* appends one teacher enrollment of that user and changes nothing else;
\* for an enrolled user it fails and changes nothing.
C22_AddTeacherUnrestricted ==
    \A u \in Users :
        LET r == add_teacher(course, u)
        IN  /\ r.result = OK <=> enrollments_of(course, u) = {}
            /\ r.result = OK =>
                   r.self = [course EXCEPT !.enrollments =
                                Append(@, [user |-> u, role |-> TEACHER])]
            /\ r.result # OK =>
                   r.result = "User is already enrolled" /\ r.self = course

\* A teacher was added to a course of capacity 1 after its one student.
C22_Witness ==
    /\ course.max_students = Some(1)
    /\ Len(course.enrollments) = 3
    /\ course.enrollments[2].role = STUDENT
    /\ course.enrollments[3].role = TEACHER

\* C23: get_course_statistics reports the numbers of student-role and of
\* teacher-role enrollments, which add up to the number of enrollments, the
\* lengths of announcements and of materials, and the current status.
C23_StatisticsCountTheCourse ==
    LET st == get_course_statistics(course)
    IN  /\ st.total_students = number_with_role(STUDENT)
        /\ st.total_teachers = number_with_role(TEACHER)
        /\ st.total_students + st.total_teachers = Len(course.enrollments)
        /\ st.total_announcements = Len(course.announcements)
        /\ st.total_materials = Len(course.materials)
        /\ st.status = course.status

\* An archived course with two teachers, one student, two announcements and
\* no material.
C23_Witness ==
    /\ course.status = ARCHIVED
    /\ number_with_role(TEACHER) = 2
    /\ number_with_role(STUDENT) = 1
    /\ Len(course.announcements) = 2
    /\ Len(course.materials) = 0

\* C24: enroll_student succeeds exactly when the course is active, the code
\* is the stored access code, the user has no enrollment, and max_students
\* is unset or exceeds the number of student-role enrollments, that is,
\* when the first three hold and can_accept_students is true; a success
\* appends one student enrollment of the user and changes nothing else.
C24_EnrollStudentPreconditions ==
    \A u \in Users, c \in Codes :
        LET r == enroll_student(course, u, c)
            first_three ==
                /\ course.status = ACTIVE
                /\ c = StoredCode
                /\ enrollments_of(course, u) = {}
            room ==
                \/ course.max_students = None
                \/ number_with_role(STUDENT) < course.max_students[1]
        IN  /\ r.result = OK <=> (first_three /\ room)
            /\ r.result = OK <=> (first_three /\ can_accept_students(course))
            /\ r.result = OK =>
                   r.self = [course EXCEPT !.enrollments =
                                Append(@, [user |-> u, role |-> STUDENT])]

\* A student was enrolled in a course of capacity 2 that already had two
\* enrollments, both of teachers.
C24_Witness ==
    /\ course.max_students = Some(2)
    /\ Len(course.enrollments) = 3
    /\ course.enrollments[2].role = TEACHER
    /\ course.enrollments[3].role = STUDENT

\* C25 (as claimed): every successful CreateCourseUseCase.execute and
\* CreateAssignmentUseCase.execute stores the new aggregate under an
\* identifier no stored aggregate of its kind has: the repository grows by
\* one and every aggregate stored before is still there as it was.
C25_CreatedIdentifiersAreFresh ==
    /\ \A t \in UserIds, n \in Names, c \in Codes, cap \in Capacities :
           LET r == CreateCourseUseCase_execute(course_repo, t, n, c, cap)
           IN  r.result = OK =>
                   /\ Cardinality(DOMAIN r.repo)
                          = Cardinality(DOMAIN course_repo) + 1
                   /\ \A k \in DOMAIN course_repo :
                          r.repo[k] = course_repo[k]
    /\ \A cid \in CourseIds, t \in UserIds, ti \in Titles,
          mp \in MaxPointValues :
           LET r == CreateAssignmentUseCase_execute(
                        assignment_repo, course_repo, cid, t, ti, mp,
                        MaxTime, FALSE)
           IN  r.result = OK =>
                   /\ Cardinality(DOMAIN r.repo)
                          = Cardinality(DOMAIN assignment_repo) + 1
                   /\ \A k \in DOMAIN assignment_repo :
                          r.repo[k] = assignment_repo[k]

\* Some user has more than one enrollment, or more students are enrolled
\* than max_students allows.
enrolled_twice_or_over_capacity ==
    \/ \E u \in Users : Cardinality(enrollments_of(course, u)) > 1
    \/ /\ course.max_students # None
       /\ number_with_role(STUDENT) > course.max_students[1]

\* C26: while the mutating calls on the course are serialized, no user is
\* enrolled twice and the students never outnumber max_students.  (That
\* such a state is reached when two enroll_student calls interleave between
\* the checks and the append is the witness below.)
C26_SerializedCallsKeepInvariants ==
    serialized => ~ enrolled_twice_or_over_capacity

\* Without serialization two calls for the same user both passed the checks
\* of a course of capacity 1 and both appended: the user is enrolled twice
\* and two students are enrolled.
C26_Witness ==
    /\ ~ serialized
    /\ course.max_students = Some(1)
    /\ number_with_role(STUDENT) = 2
    /\ \E u \in Users : Cardinality(enrollments_of(course, u)) = 2

\* C27: in every state from its creation on, the student of the submission
\* does not hold the teacher role in the course; every add_grade call that
\* student makes is rejected by the teacher-role check, and no add_grade
\* call of any user is rejected with
\* "Cannot grade own submission".
C27_SelfGradingCheckNeverDecides ==
    [](submission # None =>
        /\ ~ holds_role(course, submission[1].student, TEACHER)
        /\ \A u \in Users, p \in PointValues, f \in Feedbacks :
               LET r == add_grade(submission[1], assignment[1], course, u, p, f)
               IN  /\ r.result # "Cannot grade own submission"
                   /\ u = submission[1].student =>
                          r.result = "Only teachers can grade submissions")

\* After the submission's student was enrolled a teacher was added, and the
\* submission has been graded.
C27_Witness ==
    /\ submission # None
    /\ is_graded(submission[1])
    /\ \E i, j \in DOMAIN course.enrollments :
           /\ i < j
           /\ course.enrollments[i].user = submission[1].student
           /\ course.enrollments[j].role = TEACHER

\* C28: every step leaves the enrollments there were in place and adds at
\* most to their end, so a role get_user_role has returned for a user is
\* the one it returns afterwards and is_enrolled stays true; and the
\* creator of the assignment is a teacher of the course in every state.
C28_EnrollmentsAppendOnly ==
    /\ [](assignment # None =>
             get_user_role(course, assignment[1].created_by) = Some(TEACHER))
    /\ [][\/ course'.enrollments = course.enrollments
           \/ /\ Len(course'.enrollments) >= Len(course.enrollments)
              /\ SubSeq(course'.enrollments, 1, Len(course.enrollments))
                     = course.enrollments
              /\ \A u \in Users :
                     /\ is_enrolled(course, u) => is_enrolled(course', u)
                     /\ get_user_role(course, u) # None =>
                            get_user_role(course', u)
                                = get_user_role(course, u)
          ]_vars

\* The assignment of an archived course with three enrollments has a
\* submission: its creator was a teacher through all the steps that led
\* here.
C28_Witness ==
    /\ assignment # None
    /\ submission # None
    /\ course.status = ARCHIVED
    /\ Len(course.enrollments) = 3

\* C29: is_late() of the submission is true exactly when submitted_at is
\* after the due date of the assignment, and no step changes its value: a
\* late submission is late after it has been graded, one in time is not.
C29_LateIsByTimeAndSurvivesGrading ==
    /\ [](submission # None =>
             (is_late(submission[1], assignment[1])
                  <=> submission[1].submitted_at > assignment[1].due_date))
    /\ [][(submission # None /\ submission' # None) =>
              is_late(submission'[1], assignment'[1])
                  = is_late(submission[1], assignment[1])
          ]_vars

\* A submission handed in after the due date has been graded.
C29_Witness ==
    /\ submission # None
    /\ submission[1].status = GRADED
    /\ submission[1].submitted_at > assignment[1].due_date

\* C30: the status of the submission is submitted, late or graded; it is
\* graded exactly when a grade is present; a present grade has
\* 0 <= points <= max_points, with max_points that of the assignment.
C30_SubmissionStateIsConsistent ==
    submission # None =>
        LET s == submission[1]
        IN  /\ s.status \in {SUBMITTED, LATE, GRADED}
            /\ s.status = GRADED <=> s.grade # None
            /\ s.grade # None =>
                   /\ 0 <= s.grade[1].points
                   /\ s.grade[1].points <= s.grade[1].max_points
                   /\ s.grade[1].max_points = assignment[1].max_points

\* A submission in time was graded with full points in an active course.
C30_Witness ==
    /\ submission # None
    /\ submission[1].status = GRADED
    /\ submission[1].submitted_at <= assignment[1].due_date
    /\ submission[1].grade[1].points = assignment[1].max_points
    /\ course.status = ACTIVE

====
